---- MODULE Spec2Model ----
(***************************************************************************)
(* A model of package simplehealth (simplehealth.go): the check registry   *)
(* of SimpleHealth (a Go slice, with its backing array), the concurrent    *)
(* runner Run, and the three built-in checks CheckLoad, CheckOpenFiles and *)
(* CheckDisk as functions of what the operating system reports.            *)
(***************************************************************************)
EXTENDS Integers, Sequences, FiniteSets, TLC

(***************************************************************************)
(* Bounds of the model.                                                    *)
(***************************************************************************)
\* the longest registry Run is started on
MaxChecks == 4
\* the number of SimpleHealth instances of the process
NumInstances == 2
\* the number of NewSimpleHealth, AddCheck and SetChecks calls after start
MaxCalls == 4
\* the highest 5-minute load average, in hundredths, and the most CPUs
MaxLoad5 == 400
MaxCPU == 4
\* the longest process list and the longest partition list
MaxProcs == 2
MaxParts == 2
\* the width, in bits, the unsigned 64-bit inode counters are modelled with
UintBits == 16

VARIABLES
    \* ---- the registry: Go slices and their backing arrays ----
    heap,          \* heap[a]: the cells of backing array a (its length is the capacity)
    defaultChecks, \* the package-level slice
    checks,        \* checks[s]: the field checks of instance s
    callerSlice,   \* a slice its owner hands to SetChecks(callerSlice...)
    lastInst,      \* the instance the last call was made on (0: none yet)
    lastOp,        \* the last call
    called,        \* the instances AddCheck or SetChecks was ever called on
    expected,      \* expected[s]: last SetChecks arguments, then the AddCheck arguments
    ncalls,        \* the calls made so far
    \* ---- SimpleHealth.Run ----
    nchecks,    \* len(s.checks) of the instance Run is called on
    hangs,      \* the registry entries whose check never returns
    pc,         \* where the goroutine calling Run is
    idx,        \* the dispatch loop has started goroutines 1..idx
    gpc,        \* gpc[i]: where the goroutine of registry entry i is
    calls,      \* calls[i]: how often registry entry i was called
    ret,        \* ret[i]: what the check of entry i returned
    errCh,      \* the buffered channel, oldest value first
    errs,       \* the local slice errs of Run
    recvd,      \* the values the collect loop has received
    \* ---- the built-in checks ----
    os,         \* what the operating system reports to the check
    result      \* what the check returned

runVars == <<nchecks, hangs, pc, idx, gpc, calls, ret, errCh, errs, recvd>>

regVars == <<heap, defaultChecks, checks, callerSlice, lastInst, lastOp, called,
             expected, ncalls>>

chkVars == <<os, result>>

vars == <<regVars, runVars, chkVars>>

(***************************************************************************)
(* Go slices.  A slice value is a header (backing array, length, capacity); *)
(* assigning a slice copies the header and shares the array.  All slices   *)
(* of the package start at the first cell of their array.                  *)
(***************************************************************************)
NilSlice == [arr |-> 0, len |-> 0, cap |-> 0]

\* the elements a slice header shows, read from heap hp
ViewIn(hp, h) == [k \in 1..h.len |-> hp[h.arr][k]]
View(h) == ViewIn(heap, h)

\* the zero cells that pad an array from len to cap
Padding(n) == [k \in 1..n |-> "nil"]

\* the capacities append may give a grown slice: Go promises only room for
\* the new element; the runtime doubles a small slice
GrowCaps(h) == {h.len + 1} \cup {c \in {2 * h.cap} : c > h.len + 1}

\* append(h, c) on heap hp, growing to capacity nc when h is full: the new
\* heap and the header append returns
SliceAppendReset(hp, h, c, nc) ==
    [heap |-> Append(hp, <<c>>),
     hdr  |-> [arr |-> Len(hp) + 1, len |-> 1, cap |-> 1]]
SliceAppend(hp, h, c, nc) ==
    IF h.len < h.cap
    THEN [heap |-> [hp EXCEPT ![h.arr][h.len + 1] = c],
          hdr  |-> [h EXCEPT !.len = h.len + 1]]
    ELSE [heap |-> Append(hp, ViewIn(hp, h) \o <<c>> \o Padding(nc - h.len - 1)),
          hdr  |-> [arr |-> Len(hp) + 1, len |-> h.len + 1, cap |-> nc]]

(***************************************************************************)
(* The registry of SimpleHealth.                                           *)
(***************************************************************************)
Inst == 1..NumInstances

\* the checks a caller registers besides the built-in ones
CustomChecks == {"x", "y"}
\* the argument lists of SetChecks(a, b, ...) calls
ArgLists == {<<>>, <<"y", "x">>}
\* the contents of the slice of SetChecks(callerSlice...) calls
CallerChecks == <<"p", "q">>
\* the spare capacity callerSlice may have
CallerSpare == {0, 1}

\* var defaultChecks = []func() error{...}: a literal has capacity = length
DefaultChecksShort == <<"CheckOpenFiles", "CheckDisk">>
DefaultChecksLiteral == <<"CheckOpenFiles", "CheckDisk", "CheckLoad">>

RegInit ==
    /\ \E spare \in CallerSpare :
          /\ heap = <<DefaultChecksLiteral, CallerChecks \o Padding(spare)>>
          /\ callerSlice = [arr |-> 2, len |-> Len(CallerChecks),
                            cap |-> Len(CallerChecks) + spare]
    /\ defaultChecks = [arr |-> 1, len |-> Len(DefaultChecksLiteral),
                        cap |-> Len(DefaultChecksLiteral)]
    \* every instance comes from NewSimpleHealth()
    /\ checks = [s \in Inst |-> defaultChecks]
    /\ expected = [s \in Inst |-> DefaultChecksLiteral]
    /\ lastInst = 0
    /\ lastOp = "none"
    /\ called = {}
    /\ ncalls = 0
    \* no Run in flight, no check called
    /\ nchecks = 0 /\ hangs = {} /\ pc = "idle" /\ idx = 0
    /\ gpc = <<>> /\ calls = <<>> /\ ret = <<>>
    /\ errCh = <<>> /\ errs = <<>> /\ recvd = 0
    /\ os = [kind |-> "none"] /\ result = [kind |-> "unset"]

\* s = NewSimpleHealth(): &SimpleHealth{checks: defaultChecks}
NewSimpleHealth(s) ==
    /\ ncalls < MaxCalls
    /\ checks' = [checks EXCEPT ![s] = defaultChecks]
    /\ expected' = [expected EXCEPT ![s] = View(defaultChecks)]
    /\ lastInst' = s
    /\ lastOp' = "NewSimpleHealth"
    /\ ncalls' = ncalls + 1
    /\ UNCHANGED <<heap, defaultChecks, callerSlice, called>>
    /\ UNCHANGED <<runVars, chkVars>>

\* s.AddCheck(c): s.checks = append(s.checks, check)
AddCheck(s, c) ==
    /\ ncalls < MaxCalls
    /\ \E nc \in GrowCaps(checks[s]) :
          LET r == SliceAppend(heap, checks[s], c, nc) IN
          /\ heap' = r.heap
          /\ checks' = [checks EXCEPT ![s] = r.hdr]
    /\ expected' = [expected EXCEPT ![s] = Append(@, c)]
    /\ lastInst' = s
    /\ lastOp' = "AddCheck"
    /\ called' = called \cup {s}
    /\ ncalls' = ncalls + 1
    /\ UNCHANGED <<defaultChecks, callerSlice>>
    /\ UNCHANGED <<runVars, chkVars>>

\* s.SetChecks(a...) with the arguments written out: the compiler builds a
\* new array of exactly the arguments (nil for none); s.checks = checks
SetChecksArgs(s, a) ==
    /\ ncalls < MaxCalls
    /\ IF a = <<>>
       THEN /\ heap' = heap
            /\ checks' = [checks EXCEPT ![s] = NilSlice]
       ELSE /\ heap' = Append(heap, a)
            /\ checks' = [checks EXCEPT ![s] =
                              [arr |-> Len(heap) + 1, len |-> Len(a), cap |-> Len(a)]]
    /\ expected' = [expected EXCEPT ![s] = a]
    /\ lastInst' = s
    /\ lastOp' = "SetChecks"
    /\ called' = called \cup {s}
    /\ ncalls' = ncalls + 1
    /\ UNCHANGED <<defaultChecks, callerSlice>>
    /\ UNCHANGED <<runVars, chkVars>>

\* s.SetChecks(callerSlice...): the parameter is the caller's slice itself;
\* s.checks = checks
SetChecksSlice(s) ==
    /\ ncalls < MaxCalls
    /\ checks' = [checks EXCEPT ![s] = callerSlice]
    /\ expected' = [expected EXCEPT ![s] = View(callerSlice)]
    /\ lastInst' = s
    /\ lastOp' = "SetChecks"
    /\ called' = called \cup {s}
    /\ ncalls' = ncalls + 1
    /\ UNCHANGED <<heap, defaultChecks, callerSlice>>
    /\ UNCHANGED <<runVars, chkVars>>

RegNext ==
    \/ \E s \in Inst : NewSimpleHealth(s)
    \/ \E s \in Inst, c \in CustomChecks : AddCheck(s, c)
    \/ \E s \in Inst, a \in ArgLists : SetChecksArgs(s, a)
    \/ \E s \in Inst : SetChecksSlice(s)

(***************************************************************************)
(* SimpleHealth.Run.  A value on errCh is 0 for a nil error and i for the  *)
(* error returned by the check of registry entry i.                        *)
(***************************************************************************)
Entries == 1..nchecks

\* make(chan error, len(s.checks)): the capacity of errCh
ChanCapOneShort(n) == IF n > 0 THEN n - 1 ELSE 0
ChanCap(n) == n

RunInit ==
    /\ nchecks \in 0..MaxChecks
    /\ hangs \in SUBSET (1..nchecks)
    /\ pc = "idle"
    /\ idx = 0
    /\ gpc = [i \in 1..nchecks |-> "none"]
    /\ calls = [i \in 1..nchecks |-> 0]
    /\ ret = [i \in 1..nchecks |-> "none"]
    /\ errCh = <<>>
    /\ errs = <<>>
    /\ recvd = 0
    \* the registry is not changed while Run is in flight
    /\ heap = <<>> /\ defaultChecks = NilSlice /\ checks = <<>>
    /\ callerSlice = NilSlice /\ lastInst = 0 /\ lastOp = "none"
    /\ called = {} /\ expected = <<>> /\ ncalls = 0
    /\ os = [kind |-> "none"] /\ result = [kind |-> "unset"]

\* Run is entered: var errs []error; errCh := make(chan error, len(s.checks))
RunStart ==
    /\ pc = "idle"
    /\ pc' = "dispatch"
    /\ errs' = <<>>
    /\ errCh' = <<>>
    /\ UNCHANGED <<nchecks, hangs, idx, gpc, calls, ret, recvd>>
    /\ UNCHANGED <<regVars, chkVars>>

\* one iteration of "for _, check := range s.checks { go func(c){...}(check) }"
RunDispatch ==
    /\ pc = "dispatch"
    /\ idx < nchecks
    /\ idx' = idx + 1
    /\ gpc' = [gpc EXCEPT ![idx + 1] = "spawned"]
    /\ UNCHANGED <<nchecks, hangs, pc, calls, ret, errCh, errs, recvd>>
    /\ UNCHANGED <<regVars, chkVars>>

\* the dispatch loop is over; the collect loop begins
RunDispatched ==
    /\ pc = "dispatch"
    /\ idx = nchecks
    /\ pc' = "collect"
    /\ UNCHANGED <<nchecks, hangs, idx, gpc, calls, ret, errCh, errs, recvd>>
    /\ UNCHANGED <<regVars, chkVars>>

\* the check the goroutine started by iteration i calls: check is handed to
\* the goroutine as the argument c, so it is the check of that iteration
CalleeLoopVariable(i) == nchecks
Callee(i) == i

\* goroutine i starts and calls c()
GoCall(i) ==
    /\ gpc[i] = "spawned"
    /\ gpc' = [gpc EXCEPT ![i] = "running"]
    /\ calls' = [calls EXCEPT ![Callee(i)] = @ + 1]
    /\ UNCHANGED <<nchecks, hangs, pc, idx, ret, errCh, errs, recvd>>
    /\ UNCHANGED <<regVars, chkVars>>

\* c() returns, nil or an error; a check in hangs never does
CheckReturn(i) ==
    /\ gpc[i] = "running"
    /\ i \notin hangs
    /\ \E r \in {"nil", "err"} : ret' = [ret EXCEPT ![i] = r]
    /\ gpc' = [gpc EXCEPT ![i] = "send"]
    /\ UNCHANGED <<nchecks, hangs, pc, idx, calls, errCh, errs, recvd>>
    /\ UNCHANGED <<regVars, chkVars>>

\* errCh <- (the value c() returned): blocks while the buffer is full
GoSend(i) ==
    /\ gpc[i] = "send"
    /\ Len(errCh) < ChanCap(nchecks)
    /\ errCh' = Append(errCh, IF ret[i] = "err" THEN i ELSE 0)
    /\ gpc' = [gpc EXCEPT ![i] = "done"]
    /\ UNCHANGED <<nchecks, hangs, pc, idx, calls, ret, errs, recvd>>
    /\ UNCHANGED <<regVars, chkVars>>

\* the number of iterations of "for range s.checks"
CollectCountOneShort(n) == IF n > 0 THEN n - 1 ELSE 0
CollectCount(n) == n

\* if err := <-errCh; err != nil { errs = append(errs, err) }
KeepAll(v) == TRUE
Keep(v) == v # 0

RunRecv ==
    /\ pc = "collect"
    /\ recvd < CollectCount(nchecks)
    /\ errCh # <<>>
    /\ errs' = IF Keep(Head(errCh)) THEN Append(errs, Head(errCh)) ELSE errs
    /\ errCh' = Tail(errCh)
    /\ recvd' = recvd + 1
    /\ UNCHANGED <<nchecks, hangs, pc, idx, gpc, calls, ret>>
    /\ UNCHANGED <<regVars, chkVars>>

\* return errs
RunReturn ==
    /\ pc = "collect"
    /\ recvd = CollectCount(nchecks)
    /\ pc' = "returned"
    /\ UNCHANGED <<nchecks, hangs, idx, gpc, calls, ret, errCh, errs, recvd>>
    /\ UNCHANGED <<regVars, chkVars>>

RunNext ==
    \/ RunStart
    \/ RunDispatch
    \/ RunDispatched
    \/ \E i \in Entries : GoCall(i)
    \/ \E i \in Entries : CheckReturn(i)
    \/ \E i \in Entries : GoSend(i)
    \/ RunRecv
    \/ RunReturn

SpecRun == RunInit /\ [][RunNext]_vars

\* the Go scheduler runs every goroutine that can take a step
FairSpecRun ==
    /\ SpecRun
    /\ WF_vars(RunStart) /\ WF_vars(RunDispatch) /\ WF_vars(RunDispatched)
    /\ WF_vars(RunRecv) /\ WF_vars(RunReturn)
    /\ \A i \in 1..MaxChecks :
          WF_vars(i \in Entries /\ GoCall(i))
          /\ WF_vars(i \in Entries /\ CheckReturn(i))
          /\ WF_vars(i \in Entries /\ GoSend(i))

SpecReg == RegInit /\ [][RegNext]_vars

(***************************************************************************)
(* The built-in checks, as functions of what the operating system reports. *)
(* A check returns Nil or an error value.  The thresholds are compared as  *)
(* exact fractions: on the values the operating system reports (a load     *)
(* with two decimals, 32-bit descriptor counts) the float64 quotient lies  *)
(* on the same side of the float64 threshold as the exact quotient.  The   *)
(* percentage printed in an error message is not modelled.                 *)
(***************************************************************************)
Nil == [kind |-> "nil"]
Unset == [kind |-> "unset"]

\* maxLoad = 0.8, maxOpenFilesPerc = 0.9, maxDiskPerc = 0.9, in tenths
maxLoad == 8
maxOpenFilesPerc == 9
maxDiskPerc == 9

\* ---- CheckLoad ----
\* got := avg.Load5 / float64(numCPU); got > maxLoad  (load5 in hundredths)
LoadReached(load5, numCPU) == 10 * load5 >= maxLoad * 100 * numCPU
LoadExceeded(load5, numCPU) == 10 * load5 > maxLoad * 100 * numCPU

\* avg: what load.Avg() returned; numCPU: runtime.NumCPU()
CheckLoad(avg, numCPU) ==
    IF avg.err THEN [kind |-> "error", what |-> "load.Avg"]
    ELSE IF LoadExceeded(avg.load5, numCPU)
         THEN [kind |-> "error", what |-> "high load5 per cpu"]
         ELSE Nil

LoadAvgs ==
    {[err |-> TRUE, load5 |-> 0]} \cup {[err |-> FALSE, load5 |-> l] : l \in 0..MaxLoad5}

LoadInit ==
    /\ os \in [kind : {"load"}, avg : LoadAvgs, numCPU : 1..MaxCPU]
    /\ result = Unset
    /\ heap = <<>> /\ defaultChecks = NilSlice /\ checks = <<>>
    /\ callerSlice = NilSlice /\ lastInst = 0 /\ lastOp = "none"
    /\ called = {} /\ expected = <<>> /\ ncalls = 0
    /\ nchecks = 0 /\ hangs = {} /\ pc = "idle" /\ idx = 0
    /\ gpc = <<>> /\ calls = <<>> /\ ret = <<>>
    /\ errCh = <<>> /\ errs = <<>> /\ recvd = 0

CallCheckLoad ==
    /\ result = Unset
    /\ result' = CheckLoad(os.avg, os.numCPU)
    /\ UNCHANGED <<os, regVars, runVars>>

LoadNext == CallCheckLoad

SpecLoad == LoadInit /\ [][LoadNext]_vars

\* ---- CheckOpenFiles ----
\* what the process with pid k reports: Username(), Name() ("" when the read
\* fails), Rlimit() and NumFDs()
Labels == {[user |-> "root", name |-> "sshd"], [user |-> "app", name |-> "nginx"],
           [user |-> "", name |-> ""]}
Rlimits ==
    {[err |-> TRUE, soft |-> 0]} \cup {[err |-> FALSE, soft |-> n] : n \in {0, 10, 1024}}
NumFDs ==
    {[err |-> TRUE, cur |-> 0]} \cup {[err |-> FALSE, cur |-> n] : n \in {0, 9, 10, 922}}
Procs == [label : Labels, rlimit : Rlimits, numfds : NumFDs]

\* softLimit < 1024 && user == "root"
RootCarveOutAnyUser(p) == p.rlimit.soft < 1024
RootCarveOut(p) == p.rlimit.soft < 1024 /\ p.label.user = "root"

\* usage := float64(cur) / float64(softLimit); usage > maxOpenFilesPerc
FilesExceeded(cur, soft) == 10 * cur > maxOpenFilesPerc * soft

\* the body of "for _, p := range processes" from the process at index k on
RECURSIVE OpenFilesLoop(_, _)
OpenFilesLoop(procs, k) ==
    IF k > Len(procs) THEN Nil
    ELSE LET p == procs[k] IN
         IF p.rlimit.err THEN OpenFilesLoop(procs, k + 1)
         ELSE IF p.rlimit.soft <= 0 THEN OpenFilesLoop(procs, k + 1)
         ELSE IF RootCarveOut(p) THEN OpenFilesLoop(procs, k + 1)
         ELSE IF p.numfds.err \/ p.numfds.cur = 0 THEN OpenFilesLoop(procs, k + 1)
         ELSE IF FilesExceeded(p.numfds.cur, p.rlimit.soft)
              THEN [kind |-> "error", what |-> "open files", pid |-> k,
                    user |-> p.label.user, name |-> p.label.name]
              ELSE OpenFilesLoop(procs, k + 1)

\* listing: what process.Processes() returned
CheckOpenFiles(listing) ==
    IF listing.err THEN [kind |-> "error", what |-> "process.Processes"]
    ELSE OpenFilesLoop(listing.procs, 1)

ProcLists == UNION {[1..n -> Procs] : n \in 0..MaxProcs}

FilesInit ==
    /\ os \in {[kind |-> "processes", err |-> TRUE, procs |-> <<>>]}
              \cup [kind : {"processes"}, err : {FALSE}, procs : ProcLists]
    /\ result = Unset
    /\ heap = <<>> /\ defaultChecks = NilSlice /\ checks = <<>>
    /\ callerSlice = NilSlice /\ lastInst = 0 /\ lastOp = "none"
    /\ called = {} /\ expected = <<>> /\ ncalls = 0
    /\ nchecks = 0 /\ hangs = {} /\ pc = "idle" /\ idx = 0
    /\ gpc = <<>> /\ calls = <<>> /\ ret = <<>>
    /\ errCh = <<>> /\ errs = <<>> /\ recvd = 0

CallCheckOpenFiles ==
    /\ result = Unset
    /\ result' = CheckOpenFiles(os)
    /\ UNCHANGED <<os, regVars, runVars>>

FilesNext == CallCheckOpenFiles

SpecFiles == FilesInit /\ [][FilesNext]_vars

\* ---- CheckDisk ----
\* strings are sequences of characters; strings.Contains(s, sub)
Contains(s, sub) ==
    \E i \in 1..(Len(s) - Len(sub) + 1) : SubSeq(s, i, i + Len(sub) - 1) = sub

\* the partitions disk.Partitions(false) may list; excluded records whether
\* the device holds "loop" or "devfs" or the mountpoint "/snap/" or "/boot"
Mounts ==
    {[device |-> <<"/","d","e","v","/","s","d","a","1">>,
      mountpoint |-> <<"/">>, excluded |-> FALSE],
     [device |-> <<"/","d","e","v","/","l","o","o","p","0">>,
      mountpoint |-> <<"/","m","n","t">>, excluded |-> TRUE],
     [device |-> <<"d","e","v","f","s">>,
      mountpoint |-> <<"/","d","e","v">>, excluded |-> TRUE],
     [device |-> <<"/","d","e","v","/","s","d","a","2">>,
      mountpoint |-> <<"/","b","o","o","t","/","e","f","i">>, excluded |-> TRUE],
     [device |-> <<"/","d","e","v","/","s","d","b","1">>,
      mountpoint |-> <<"/","s","n","a","p","/","a">>, excluded |-> TRUE],
     [device |-> <<"/","d","e","v","/","s","d","c","1">>,
      mountpoint |-> <<"/","s","n","a","p">>, excluded |-> FALSE]}

\* disk.Usage(mountpoint): UsedPercent in tenths of a percent
Usages ==
    {[err |-> TRUE, used |-> 0]} \cup {[err |-> FALSE, used |-> u] : u \in {899, 900}}
\* syscall.Statfs(mountpoint): Files and Ffree, unsigned
Statfs ==
    {[err |-> TRUE, files |-> 0, ffree |-> 0]}
    \cup {[err |-> FALSE, files |-> f[1], ffree |-> f[2]] :
            f \in {<<0, 0>>, <<10, 1>>, <<10, 2>>, <<10, 11>>}}
Parts == [mount : Mounts, usage : Usages, statfs : Statfs]

\* the partitions the loop skips before reading anything
NotMeaningful(part) ==
    \/ Contains(part.mount.device, <<"l","o","o","p">>)
    \/ Contains(part.mount.mountpoint, <<"/","s","n","a","p","/">>)
    \/ Contains(part.mount.mountpoint, <<"/","b","o","o","t">>)
    \/ Contains(part.mount.device, <<"d","e","v","f","s">>)

\* statvfs.Files - statvfs.Ffree: unsigned subtraction wraps around
UintSub(a, b) == (a - b) % (2 ^ UintBits)

\* usage.UsedPercent >= 100*maxDiskPerc  (used in tenths of a percent)
BytesFull(used) == used >= 100 * maxDiskPerc
\* percInodes := 100.0 * float64(Files-Ffree) / float64(Files);
\* percInodes >= 100*maxDiskPerc
InodesFull(files, ffree) == 10 * UintSub(files, ffree) >= maxDiskPerc * files

\* the body of "for _, part := range parts" from the partition at index k on
RECURSIVE DiskLoop(_, _)
DiskLoop(parts, k) ==
    IF k > Len(parts) THEN Nil
    ELSE LET part == parts[k] IN
         IF NotMeaningful(part) THEN DiskLoop(parts, k + 1)
         ELSE IF part.usage.err THEN DiskLoop(parts, k + 1)
         ELSE IF BytesFull(part.usage.used)
              THEN [kind |-> "error", what |-> "disk bytes",
                    mountpoint |-> part.mount.mountpoint]
         ELSE IF part.statfs.err THEN DiskLoop(parts, k + 1)
         ELSE IF part.statfs.files > 0
                 /\ InodesFull(part.statfs.files, part.statfs.ffree)
              THEN [kind |-> "error", what |-> "disk inodes",
                    mountpoint |-> part.mount.mountpoint]
              ELSE DiskLoop(parts, k + 1)

\* listing: what disk.Partitions(false) returned
CheckDisk(listing) ==
    IF listing.err THEN [kind |-> "error", what |-> "disk.Partitions"]
    ELSE DiskLoop(listing.parts, 1)

PartLists == UNION {[1..n -> Parts] : n \in 0..MaxParts}

DiskInit ==
    /\ os \in {[kind |-> "partitions", err |-> TRUE, parts |-> <<>>]}
              \cup [kind : {"partitions"}, err : {FALSE}, parts : PartLists]
    /\ result = Unset
    /\ heap = <<>> /\ defaultChecks = NilSlice /\ checks = <<>>
    /\ callerSlice = NilSlice /\ lastInst = 0 /\ lastOp = "none"
    /\ called = {} /\ expected = <<>> /\ ncalls = 0
    /\ nchecks = 0 /\ hangs = {} /\ pc = "idle" /\ idx = 0
    /\ gpc = <<>> /\ calls = <<>> /\ ret = <<>>
    /\ errCh = <<>> /\ errs = <<>> /\ recvd = 0

CallCheckDisk ==
    /\ result = Unset
    /\ result' = CheckDisk(os)
    /\ UNCHANGED <<os, regVars, runVars>>

DiskNext == CallCheckDisk

SpecDisk == DiskInit /\ [][DiskNext]_vars

(***************************************************************************)
(* Claims about the registry.                                              *)
(***************************************************************************)
\* the instance s has just come from NewSimpleHealth
NewlyConstructed(s) ==
    ncalls = 0 \/ (lastOp = "NewSimpleHealth" /\ lastInst = s)

\* C4: as long as calls were made on one instance only, its registry is the
\* arguments of its last SetChecks call (the construction-time contents when
\* there was none) followed by the arguments of the later AddCheck calls in
\* call order.
C4_RegistryIsCallHistory ==
    \A s \in Inst : called \subseteq {s} => View(checks[s]) = expected[s]

C4_Witness ==
    /\ called = {1}
    /\ lastOp = "AddCheck"
    /\ expected[1] = <<"p", "q", "x", "y">>
    /\ View(checks[1]) = <<"p", "q", "x", "y">>

\* C5 as claimed: a newly constructed instance holds exactly the three
\* checks load, descriptor usage, disk/inode usage, in that order.
C5_LoadFirst ==
    \A s \in Inst :
        NewlyConstructed(s) =>
            View(checks[s]) = <<"CheckLoad", "CheckOpenFiles", "CheckDisk">>

\* C5 as amended: a newly constructed instance holds exactly the three
\* checks descriptor usage, disk/inode usage, load, in that order.
C5_OpenFilesDiskLoad ==
    \A s \in Inst :
        NewlyConstructed(s) =>
            View(checks[s]) = <<"CheckOpenFiles", "CheckDisk", "CheckLoad">>

C5_Witness ==
    /\ lastOp = "NewSimpleHealth"
    /\ lastInst = 2
    /\ called = {1, 2}
    /\ Len(View(checks[1])) > 3

\* C10: a call on one instance changes neither the sequence of checks any
\* other instance holds nor the package-level default list.
C10_InstanceIsolation ==
    [][/\ \A s \in Inst :
            lastInst' # s => ViewIn(heap', checks'[s]) = ViewIn(heap, checks[s])
       /\ ViewIn(heap', defaultChecks') = ViewIn(heap, defaultChecks)]_vars

(***************************************************************************)
(* Claims about Run.                                                       *)
(***************************************************************************)
Failing == {i \in Entries : ret[i] = "err"}

\* C1: one call of Run calls every registered check exactly once (never more
\* than once while it runs) and has received exactly N results when it
\* returns, every goroutine having handed over its result, whatever the
\* checks returned.
C1_EveryCheckOnce ==
    /\ \A i \in Entries : calls[i] <= 1
    /\ pc = "returned" =>
          /\ idx = nchecks
          /\ \A i \in Entries : calls[i] = 1 /\ gpc[i] = "done"
          /\ recvd = nchecks
          /\ errCh = <<>>

C1_Witness ==
    /\ pc = "returned"
    /\ nchecks >= 3
    /\ \E i, j \in Entries : ret[i] = "err" /\ ret[j] = "nil"

\* C2: when Run returns, errs holds exactly one entry for every check that
\* returned an error and nothing else, in any order; it is empty when no
\* check failed.
C2_ExactlyTheFailures ==
    pc = "returned" =>
        /\ Len(errs) = Cardinality(Failing)
        /\ {errs[k] : k \in 1..Len(errs)} = Failing
        /\ (Failing = {} => errs = <<>>)

C2_Witness ==
    /\ pc = "returned"
    /\ nchecks >= 3
    /\ Cardinality(Failing) = 2
    /\ errs[1] > errs[2]

\* C3: Run has not returned while a check it dispatched is still to start or
\* executing; when every check returns, Run eventually returns; when some
\* check never returns, Run never returns.
C3_BlocksUntilSlowest ==
    /\ [](pc = "returned" =>
            \A i \in Entries : gpc[i] \notin {"none", "spawned", "running"})
    /\ (hangs = {} => <>(pc = "returned"))
    /\ (hangs # {} => [](pc # "returned"))

C3_Witness ==
    /\ pc = "collect"
    /\ nchecks >= 2
    /\ recvd = nchecks - 1
    /\ hangs # {}
    /\ \E i \in Entries : gpc[i] = "running" /\ i \in hangs

\* C9: errCh never holds more than N values, a goroutine whose check has
\* returned can always send at once, and none is left waiting to send when
\* Run has returned.
C9_SendNeverBlocks ==
    /\ Len(errCh) <= nchecks
    /\ \A i \in Entries : gpc[i] = "send" => ENABLED GoSend(i)
    /\ pc = "returned" => \A i \in Entries : gpc[i] # "send"

C9_Witness ==
    /\ nchecks >= 2
    /\ Len(errCh) = nchecks
    /\ recvd = 0

(***************************************************************************)
(* Claims about the built-in checks.                                       *)
(***************************************************************************)
\* C8: with the load average read, CheckLoad fails exactly when load5 per
\* CPU is strictly above 0.8 (load5 in hundredths: above 80 per CPU); with
\* the load average unreadable it returns the read error.
C8_LoadStrictlyAbove ==
    result # Unset =>
        IF os.avg.err
        THEN result = [kind |-> "error", what |-> "load.Avg"]
        ELSE (result # Nil <=> os.avg.load5 > 80 * os.numCPU)
             /\ (result # Nil => result.what = "high load5 per cpu")

\* load5 1.6 on 2 CPUs (exactly 0.8 per CPU) has passed
C8_Witness ==
    /\ result = Nil
    /\ ~os.avg.err /\ os.avg.load5 = 160 /\ os.numCPU = 2

\* the process is skipped
Skipped(p) ==
    \/ p.rlimit.err
    \/ p.rlimit.soft <= 0
    \/ (p.rlimit.soft < 1024 /\ p.label.user = "root")
    \/ p.numfds.err
    \/ p.numfds.cur = 0

\* the process is not skipped and uses more than 90% of its soft limit
Offender(p) == ~Skipped(p) /\ 10 * p.numfds.cur > 9 * p.rlimit.soft

\* C6: CheckOpenFiles returns the listing error when the processes cannot
\* be listed; otherwise it fails exactly when some process is not skipped
\* and above 90% of its soft limit, and names the first such process by
\* pid, user and name.
C6_FirstOffender ==
    result # Unset =>
        IF os.err
        THEN result = [kind |-> "error", what |-> "process.Processes"]
        ELSE LET off == {k \in 1..Len(os.procs) : Offender(os.procs[k])} IN
             IF off = {} THEN result = Nil
             ELSE LET k == CHOOSE m \in off : \A o \in off : m <= o IN
                  result = [kind |-> "error", what |-> "open files", pid |-> k,
                            user |-> os.procs[k].label.user,
                            name |-> os.procs[k].label.name]

\* a root process with a limit of 10 and 10 descriptors was skipped, and the
\* process after it, with unreadable user and name, was reported
C6_Witness ==
    /\ result # Unset /\ result # Nil
    /\ ~os.err /\ Len(os.procs) = 2
    /\ os.procs[1].label.user = "root" /\ os.procs[1].rlimit.soft = 10
    /\ ~os.procs[1].numfds.err /\ os.procs[1].numfds.cur = 10
    /\ os.procs[2].label.user = ""
    /\ result.pid = 2

\* the partition is over 90% by bytes
BytesOffender(part) == ~part.usage.err /\ part.usage.used >= 900

\* the partition is below 90% by bytes and at or over 90% by inodes, the
\* percentage being (total - free) / total * 100
InodesOffender(part) ==
    /\ ~part.usage.err /\ part.usage.used < 900
    /\ ~part.statfs.err /\ part.statfs.files > 0
    /\ 100 * (part.statfs.files - part.statfs.ffree) >= 90 * part.statfs.files

DiskOffender(part) ==
    ~part.mount.excluded /\ (BytesOffender(part) \/ InodesOffender(part))

\* what CheckDisk is to return on the partitions of os
DiskVerdict ==
    IF os.err
    THEN result = [kind |-> "error", what |-> "disk.Partitions"]
    ELSE LET off == {k \in 1..Len(os.parts) : DiskOffender(os.parts[k])} IN
         IF off = {} THEN result = Nil
         ELSE LET k == CHOOSE m \in off : \A o \in off : m <= o IN
              result = [kind |-> "error",
                        what |-> IF BytesOffender(os.parts[k])
                                 THEN "disk bytes" ELSE "disk inodes",
                        mountpoint |-> os.parts[k].mount.mountpoint]

\* C7: CheckDisk returns the listing error when the partitions cannot be
\* listed; otherwise it fails exactly when a partition that is not excluded
\* is at or over 90% by bytes, or below that and at or over 90% by inodes
\* with (total - free) / total * 100 for every total > 0 and every free, and
\* it names the first such partition.
C7_FirstFullPartition == result # Unset => DiskVerdict

\* the same with every partition reporting free <= total
C7_FreeWithinTotal ==
    (/\ result # Unset
     /\ \A k \in 1..Len(os.parts) : os.parts[k].statfs.ffree <= os.parts[k].statfs.files)
        => DiskVerdict
====
